---- MODULE Spec2Model ----
(***************************************************************************)
(* Model of src/app.py: the Streamlit video translator.  One script run   *)
(* (one job) is a linear pipeline: temporary file allocation, audio       *)
(* extraction, transcription, per-segment translation, WebVTT emission,   *)
(* playback assembly and cleanup.  The pure functions of the file         *)
(* (format_timestamp, create_vtt, get_base64) are operators.               *)
(*                                                                         *)
(* Representation of the data                                              *)
(*  - A string is a sequence of one-character strings.                     *)
(*  - A seconds value is the Python float written as the decimal literal   *)
(*    w.ffff: the record [w |-> whole seconds, f |-> ten-thousandths].     *)
(*    The float is the IEEE-754 double nearest to that decimal, and the    *)
(*    arithmetic of format_timestamp is modelled on that double.           *)
(***************************************************************************)
EXTENDS Integers, Sequences, FiniteSets, TLC

(***************************************************************************)
(* Bounds of the model.                                                    *)
(***************************************************************************)
MaxSegs == 2

None == "None"

\* The value of player before st.markdown has been given the markup.
NoPlayer == [rendered |-> FALSE]

(***************************************************************************)
(* Seconds values.                                                         *)
(***************************************************************************)
Sec(whole, frac) == [w |-> whole, f |-> frac]

SecLess(a, b) == a.w < b.w \/ (a.w = b.w /\ a.f < b.f)

SecLeq(a, b) == a = b \/ SecLess(a, b)

(***************************************************************************)
(* Python integer formatting f"{n:0width}" of a non-negative integer.      *)
(***************************************************************************)
DigitChar == <<"0", "1", "2", "3", "4", "5", "6", "7", "8", "9">>

RECURSIVE DecDigits(_)
DecDigits(n) ==
    IF n < 10 THEN <<DigitChar[n + 1]>>
    ELSE DecDigits(n \div 10) \o <<DigitChar[(n % 10) + 1]>>

RECURSIVE ZeroPad(_, _)
ZeroPad(s, width) ==
    IF Len(s) >= width THEN s ELSE ZeroPad(<<"0">> \o s, width)

FormatInt(n, width) == ZeroPad(DecDigits(n), width)

(***************************************************************************)
(* int(seconds * 1000) in IEEE-754 double arithmetic.                      *)
(*                                                                         *)
(* Let M be the number of whole milliseconds of the decimal w.ffff.  When  *)
(* the decimal has a non-zero fourth digit, seconds*1000 is at least 0.1   *)
(* away from every integer and the rounding errors (below 1e-7 in the      *)
(* modelled range) cannot change its whole part: the result is M.          *)
(* Otherwise the decimal is M/1000.  With 2^j <= M/1000 < 2^(j+1), the     *)
(* double d nearest to M/1000 has the 53-bit significand                   *)
(* m = round(M * 2^(52-j) / 1000), and r = M * 2^(52-j) - 1000*m is the    *)
(* signed rounding remainder (-500 < r <= 500; a tie cannot occur since    *)
(* M * 2^(52-j) is a multiple of 8).  The exact product is                 *)
(* 1000*d = M - r * 2^(j-52).  For r <= 0 the rounded product is >= M.     *)
(* For r > 0 it is below M, and the multiplication rounds it back to M     *)
(* unless it lies more than half a unit in the last place under M: the     *)
(* unit is 2^(j-52) * 512 when M/2^j < 1024 and 2^(j-52) * 1024 above, so  *)
(* the product stays below M exactly when M/2^j < 1024 and r > 256.        *)
(***************************************************************************)
RECURSIVE Pow2Mod(_, _)
Pow2Mod(e, modulus) ==
    IF e = 0 THEN 1 % modulus ELSE (2 * Pow2Mod(e - 1, modulus)) % modulus

\* The largest power of two b with 1000 * b <= millis (millis >= 1000).
RECURSIVE BinadeUp(_, _)
BinadeUp(millis, b) ==
    IF 2000 * b <= millis THEN BinadeUp(millis, 2 * b) ELSE b

\* The least i with millis * 2^i >= 1000 (1 <= millis < 1000).
RECURSIVE BinadeDown(_, _)
BinadeDown(millis, i) ==
    IF millis * Pow2Mod(i, 4096) < 1000 THEN BinadeDown(millis, i + 1) ELSE i

RECURSIVE Log2(_)
Log2(b) == IF b <= 1 THEN 0 ELSE 1 + Log2(b \div 2)

\* TRUE when the double product (millis/1000) * 1000 is below millis.
ProductFallsShort(millis) ==
    IF millis = 0 THEN FALSE
    ELSE LET up    == millis >= 1000
             b     == IF up THEN BinadeUp(millis, 1) ELSE 1
             i     == IF up THEN 0 ELSE BinadeDown(millis, 0)
             j     == IF up THEN Log2(b) ELSE 0 - i
             low   == IF up THEN millis < 1024 * b
                      ELSE millis * Pow2Mod(i, 4096) < 1024
             r     == ((millis % 1000) * Pow2Mod(52 - j, 1000)) % 1000
         IN  low /\ r > 256 /\ r <= 500

\* int(seconds * 1000): the whole part of the double product.
FloatMul1000(seconds) ==
    LET millis == seconds.w * 1000 + (seconds.f \div 10)
    IN  IF seconds.f % 10 = 0 /\ ProductFallsShort(millis)
        THEN millis - 1
        ELSE millis

(***************************************************************************)
(* format_timestamp, src/app.py lines 54-60.  The floor divisions and the  *)
(* remainders by 3600 and 60 are exact on doubles, and their thresholds    *)
(* are integers, so they equal the integer operations on the whole part.   *)
(***************************************************************************)
format_timestamp(seconds) ==
    LET hrs  == seconds.w \div 3600
        mins == (seconds.w % 3600) \div 60
        secs == seconds.w % 60
        ms   == FloatMul1000(seconds) % 1000
    IN  FormatInt(hrs, 2) \o <<":">> \o FormatInt(mins, 2) \o <<":">>
          \o FormatInt(secs, 2) \o <<".">> \o FormatInt(ms, 3)

(***************************************************************************)
(* create_vtt, src/app.py lines 45-52: the content written to the file.    *)
(***************************************************************************)
Header == <<"W", "E", "B", "V", "T", "T", "\n", "\n">>

Arrow == <<" ", "-", "-", ">", " ">>

\* One f.write of the loop body, line 52.
CueBlock(seg) ==
    format_timestamp(seg.start) \o Arrow \o format_timestamp(seg.end)
      \o <<"\n">> \o seg.text \o <<"\n", "\n">>

\* Variant of WriteCues: each block is put in front of the blocks written
\* so far instead of after them.
RECURSIVE WriteCuesReversed(_, _)
WriteCuesReversed(f, segs) ==
    IF segs = <<>> THEN f
    ELSE WriteCuesReversed(f, Tail(segs)) \o CueBlock(Head(segs))

RECURSIVE WriteCues(_, _)
WriteCues(f, segs) ==
    IF segs = <<>> THEN f
    ELSE WriteCues(f \o CueBlock(Head(segs)), Tail(segs))

\* Variant of create_vtt: nothing is written for an empty list.
create_vtt_skip_empty(segs) ==
    IF segs = <<>> THEN <<>> ELSE WriteCues(Header, segs)

create_vtt(segs) == WriteCues(Header, segs)

(***************************************************************************)
(* translate_segments, src/app.py lines 33-43: the element appended for    *)
(* one segment, given the text the translator returned for it.             *)
(***************************************************************************)
\* Variant of TranslatedSegment: the end time is taken from the start.
TranslatedSegmentEndFromStart(seg, text) ==
    [start |-> seg.start, end |-> seg.start, text |-> text]

TranslatedSegment(seg, text) ==
    [start |-> seg.start, end |-> seg.end, text |-> text]

(***************************************************************************)
(* get_base64, src/app.py lines 62-64: the bytes of the file (the UTF-8    *)
(* encoding of its characters, all ASCII here) in base64, as a string.     *)
(***************************************************************************)
\* The characters of codes 32 to 126, in order (the double quote, the
\* backslash and the backquote are written by name).
Printable ==
    <<" ", "!", "quote", "#", "$", "%", "&", "'", "(", ")", "*", "+", ",",
      "-", ".", "/", "0", "1", "2", "3", "4", "5", "6", "7", "8", "9",
      ":", ";", "<", "=", ">", "?", "@", "A", "B", "C", "D", "E", "F",
      "G", "H", "I", "J", "K", "L", "M", "N", "O", "P", "Q", "R", "S",
      "T", "U", "V", "W", "X", "Y", "Z", "[", "backslash", "]", "^", "_", "backquote",
      "a", "b", "c", "d", "e", "f", "g", "h", "i", "j", "k", "l", "m",
      "n", "o", "p", "q", "r", "s", "t", "u", "v", "w", "x", "y", "z",
      "{", "|", "}", "~">>

\* The byte of an ASCII character.
Ord(c) ==
    IF c = "\n" THEN 10
    ELSE 31 + (CHOOSE k \in 1..Len(Printable) : Printable[k] = c)

Base64Alphabet ==
    <<"A", "B", "C", "D", "E", "F", "G", "H", "I", "J", "K", "L", "M",
      "N", "O", "P", "Q", "R", "S", "T", "U", "V", "W", "X", "Y", "Z",
      "a", "b", "c", "d", "e", "f", "g", "h", "i", "j", "k", "l", "m",
      "n", "o", "p", "q", "r", "s", "t", "u", "v", "w", "x", "y", "z",
      "0", "1", "2", "3", "4", "5", "6", "7", "8", "9", "+", "/">>

RECURSIVE b64encode(_)
b64encode(bytes) ==
    IF bytes = <<>> THEN <<>>
    ELSE LET n  == Len(bytes)
             b1 == Ord(bytes[1])
             b2 == IF n >= 2 THEN Ord(bytes[2]) ELSE 0
             b3 == IF n >= 3 THEN Ord(bytes[3]) ELSE 0
         IN  <<Base64Alphabet[(b1 \div 4) + 1],
               Base64Alphabet[((b1 % 4) * 16 + (b2 \div 16)) + 1],
               IF n >= 2
               THEN Base64Alphabet[((b2 % 16) * 4 + (b3 \div 64)) + 1]
               ELSE "=",
               IF n >= 3 THEN Base64Alphabet[(b3 % 64) + 1] ELSE "=">>
               \o b64encode(SubSeq(bytes, 4, n))

get_base64(content) == b64encode(content)

\* The data URIs of lines 100-101.
VideoUriPrefix ==
    <<"d", "a", "t", "a", ":", "v", "i", "d", "e", "o", "/", "m", "p",
      "4", ";", "b", "a", "s", "e", "6", "4", ",">>

SubsUriPrefix ==
    <<"d", "a", "t", "a", ":", "t", "e", "x", "t", "/", "v", "t", "t",
      ";", "b", "a", "s", "e", "6", "4", ",">>

Upper(lang) ==
    CASE lang = "en" -> "EN" [] lang = "ta" -> "TA" [] lang = "fr" -> "FR"
      [] lang = "es" -> "ES" [] lang = "de" -> "DE" [] lang = "zh" -> "ZH"
      [] lang = "hi" -> "HI"

\* The <video> markup of lines 106-112: the values filled into the template.
VideoHtml(video_content, subs_content, lang) ==
    [source  |-> VideoUriPrefix \o get_base64(video_content),
     track   |-> SubsUriPrefix \o get_base64(subs_content),
     srclang |-> lang,
     label   |-> Upper(lang)]

(***************************************************************************)
(* The job pipeline, src/app.py lines 69-120.                              *)
(***************************************************************************)
VARIABLES
    pc,                   \* position of the script run
    uploaded_video,       \* bytes of the uploaded file, or None
    target_lang,          \* selectbox "Target Language"
    fs,                   \* the temporary files: path -> content
    segments,             \* result of transcribe_audio
    translated_segments,  \* the list built by translate_segments
    player,               \* the markup given to st.markdown, or NoPlayer
    success,              \* st.success has been shown
    log,                  \* history: stage starts and returns, in order
    calls,                \* history: calls of translator.translate
    failed_at,            \* history: stage whose exception ended the run
    seconds,              \* input of the timestamp specification
    stamp                 \* format_timestamp(seconds), or None

vars == <<pc, uploaded_video, target_lang, fs, segments, translated_segments,
          player, success, log, calls, failed_at, seconds, stamp>>

Langs == {"en", "ta", "fr", "es", "de", "zh", "hi"}

VideoBytes == <<"v", "i", "d">>

AudioBytes == <<"m", "p", "3">>

\* Paths of the three temporary files of the run (lines 74-79).
video_path == "video_path"
temp_audio == "temp_audio"
temp_subs  == "temp_subs"

TempFiles == {video_path, temp_audio, temp_subs}

Exists(path) == path \in DOMAIN fs

\* os.remove(path): raises when the path does not exist and then leaves
\* the files as they are.
Remove(files, path) ==
    IF path \in DOMAIN files
    THEN [raised |-> FALSE,
          files  |-> [q \in (DOMAIN files) \ {path} |-> files[q]]]
    ELSE [raised |-> TRUE, files |-> files]

\* open(path, "w") followed by writes of content
WriteFile(files, path, content) ==
    [q \in (DOMAIN files) \cup {path} |->
        IF q = path THEN content ELSE files[q]]

(***************************************************************************)
(* What the transcriber may return: up to MaxSegs segments with            *)
(* start < end, in the order of the audio, each starting at or after the   *)
(* end of the one before, over a few times and texts.                      *)
(***************************************************************************)
Times == {Sec(0, 0), Sec(1, 2000), Sec(3, 0), Sec(128, 100)}

SourceTexts == {<<"H", "i">>, <<"y", "o">>}

TargetTexts == {<<"o", "u", "i">>, <<"n", "o", "n">>}

Segment ==
    {sg \in [start : Times, end : Times, text : SourceTexts] :
        SecLess(sg.start, sg.end)}

Ordered(segs) ==
    \A i \in 1..(Len(segs) - 1) : SecLeq(segs[i].end, segs[i + 1].start)

SegmentLists ==
    UNION {{segs \in [1..n -> Segment] : Ordered(segs)} : n \in 0..MaxSegs}

(***************************************************************************)
(* The successor of each stage in the script.                              *)
(***************************************************************************)
\* Variant of NextStage: emission is followed by translation again.
NextStageLoop(stage) ==
    CASE stage = "click"      -> "extract"
      [] stage = "extract"    -> "transcribe"
      [] stage = "transcribe" -> "translate"
      [] stage = "translate"  -> "emit"
      [] stage = "emit"       -> "translate"
      [] stage = "assemble"   -> "success"
      [] stage = "success"    -> "rm_video"
      [] stage = "rm_video"   -> "rm_audio"
      [] stage = "rm_audio"   -> "rm_subs"
      [] stage = "rm_subs"    -> "done"

\* Variant of NextStage: the run ends after the second removal.
NextStageSkipLast(stage) ==
    CASE stage = "click"      -> "extract"
      [] stage = "extract"    -> "transcribe"
      [] stage = "transcribe" -> "translate"
      [] stage = "translate"  -> "emit"
      [] stage = "emit"       -> "assemble"
      [] stage = "assemble"   -> "success"
      [] stage = "success"    -> "rm_video"
      [] stage = "rm_video"   -> "rm_audio"
      [] stage = "rm_audio"   -> "done"
      [] stage = "rm_subs"    -> "done"

NextStage(stage) ==
    CASE stage = "click"      -> "extract"
      [] stage = "extract"    -> "transcribe"
      [] stage = "transcribe" -> "translate"
      [] stage = "translate"  -> "emit"
      [] stage = "emit"       -> "assemble"
      [] stage = "assemble"   -> "success"
      [] stage = "success"    -> "rm_video"
      [] stage = "rm_video"   -> "rm_audio"
      [] stage = "rm_audio"   -> "rm_subs"
      [] stage = "rm_subs"    -> "done"

Started(stage) == <<stage, "start">>

Returned(stage) == <<stage, "return">>

\* An unhandled exception ends the script run where it is.
Abort(stage) ==
    /\ pc' = "aborted"
    /\ failed_at' = stage

Init ==
    /\ pc = "idle"
    /\ uploaded_video \in {None, VideoBytes}
    /\ target_lang \in Langs
    /\ fs = <<>>
    /\ segments = <<>>
    /\ translated_segments = <<>>
    /\ player = NoPlayer
    /\ success = FALSE
    /\ log = <<>>
    /\ calls = <<>>
    /\ failed_at = None
    /\ seconds = None
    /\ stamp = None

\* Lines 73-79: the button is pressed with a video uploaded; the three
\* temporary files are created, the first holding the uploaded bytes.
Generate ==
    /\ pc = "idle"
    /\ uploaded_video # None
    /\ fs' = WriteFile(WriteFile(WriteFile(fs, video_path, uploaded_video),
                                 temp_audio, <<>>), temp_subs, <<>>)
    /\ pc' = NextStage("click")
    /\ UNCHANGED <<uploaded_video, target_lang, segments, translated_segments,
                   player, success, log, calls, failed_at, seconds, stamp>>

\* Lines 74-79 raise: the creation of the video file fails (no file), the
\* write of the upload fails (the file keeps a part of the bytes), or the
\* creation of the audio or of the subtitle file fails (the files created
\* before stay).
GenerateRaises ==
    /\ pc = "idle"
    /\ uploaded_video # None
    /\ \/ fs' = fs
       \/ \E n \in 0..(Len(uploaded_video) - 1) :
            fs' = WriteFile(fs, video_path, SubSeq(uploaded_video, 1, n))
       \/ fs' = WriteFile(fs, video_path, uploaded_video)
       \/ fs' = WriteFile(WriteFile(fs, video_path, uploaded_video),
                          temp_audio, <<>>)
    /\ Abort("generate")
    /\ UNCHANGED <<uploaded_video, target_lang, segments, translated_segments,
                   player, success, log, calls, seconds, stamp>>

\* Lines 82-83, extract_audio (lines 23-26).  The exit status of ffmpeg is
\* not looked at: when ffmpeg fails (no audio stream, unsupported codec)
\* the audio file stays as it was created, empty.
ExtractAudio ==
    /\ pc = "extract"
    /\ \E ok \in BOOLEAN :
         fs' = IF ok THEN WriteFile(fs, temp_audio, AudioBytes) ELSE fs
    /\ log' = log \o <<Started("extract"), Returned("extract")>>
    /\ pc' = NextStage("extract")
    /\ UNCHANGED <<uploaded_video, target_lang, segments, translated_segments,
                   player, success, calls, failed_at, seconds, stamp>>

\* subprocess.run raises when the ffmpeg executable cannot be started.
ExtractAudioRaises ==
    /\ pc = "extract"
    /\ log' = Append(log, Started("extract"))
    /\ Abort("extract")
    /\ UNCHANGED <<uploaded_video, target_lang, fs, segments,
                   translated_segments, player, success, calls, seconds, stamp>>

\* Lines 86-87, transcribe_audio (lines 28-31).  The audio file is handed
\* to the speech model as it is; an empty file yields no segments (or an
\* exception, see TranscribeRaises).
Transcribe ==
    /\ pc = "transcribe"
    /\ \E segs \in SegmentLists :
         /\ (fs[temp_audio] = <<>> => segs = <<>>)
         /\ segments' = segs
    /\ log' = log \o <<Started("transcribe"), Returned("transcribe")>>
    /\ pc' = NextStage("transcribe")
    /\ UNCHANGED <<uploaded_video, target_lang, fs, translated_segments,
                   player, success, calls, failed_at, seconds, stamp>>

TranscribeRaises ==
    /\ pc = "transcribe"
    /\ log' = Append(log, Started("transcribe"))
    /\ Abort("transcribe")
    /\ UNCHANGED <<uploaded_video, target_lang, fs, segments,
                   translated_segments, player, success, calls, seconds, stamp>>

\* Lines 90-91 and 35: translate_segments is entered.
TranslateEnter ==
    /\ pc = "translate"
    /\ translated_segments' = <<>>
    /\ log' = Append(log, Started("translate"))
    /\ pc' = "translate_loop"
    /\ UNCHANGED <<uploaded_video, target_lang, fs, segments, player, success,
                   calls, failed_at, seconds, stamp>>

\* Lines 36-42: one iteration; the translator returns a text.
TranslateStep ==
    /\ pc = "translate_loop"
    /\ Len(translated_segments) < Len(segments)
    /\ LET seg == segments[Len(translated_segments) + 1]
       IN  \E text \in TargetTexts :
             /\ calls' = Append(calls, [src |-> seg.text, dest |-> target_lang,
                                        out |-> text])
             /\ translated_segments' =
                  Append(translated_segments, TranslatedSegment(seg, text))
    /\ UNCHANGED <<pc, uploaded_video, target_lang, fs, segments, player,
                   success, log, failed_at, seconds, stamp>>

\* Variant of TranslateRaises: the failure is caught and the source text is
\* kept for the segment.
TranslateRaisesFallback ==
    /\ pc = "translate_loop"
    /\ Len(translated_segments) < Len(segments)
    /\ LET seg == segments[Len(translated_segments) + 1]
       IN  /\ calls' = Append(calls, [src |-> seg.text, dest |-> target_lang,
                                      out |-> None])
           /\ translated_segments' =
                Append(translated_segments, TranslatedSegment(seg, seg.text))
    /\ UNCHANGED <<pc, uploaded_video, target_lang, fs, segments, player,
                   success, log, failed_at, seconds, stamp>>

\* Line 37: the translator call raises.
TranslateRaises ==
    /\ pc = "translate_loop"
    /\ Len(translated_segments) < Len(segments)
    /\ LET seg == segments[Len(translated_segments) + 1]
       IN  calls' = Append(calls, [src |-> seg.text, dest |-> target_lang,
                                   out |-> None])
    /\ Abort("translate")
    /\ UNCHANGED <<uploaded_video, target_lang, fs, segments,
                   translated_segments, player, success, log, seconds, stamp>>

\* Line 43: the loop is over, the list is returned.
TranslateReturn ==
    /\ pc = "translate_loop"
    /\ Len(translated_segments) = Len(segments)
    /\ log' = Append(log, Returned("translate"))
    /\ pc' = NextStage("translate")
    /\ UNCHANGED <<uploaded_video, target_lang, fs, segments,
                   translated_segments, player, success, calls, failed_at,
                   seconds, stamp>>

\* Line 94: create_vtt writes the subtitle file.
CreateVtt ==
    /\ pc = "emit"
    /\ fs' = WriteFile(fs, temp_subs, create_vtt(translated_segments))
    /\ log' = log \o <<Started("emit"), Returned("emit")>>
    /\ pc' = NextStage("emit")
    /\ UNCHANGED <<uploaded_video, target_lang, segments, translated_segments,
                   player, success, calls, failed_at, seconds, stamp>>

\* Variant of CreateVttRaises: the unfinished file is deleted on failure.
CreateVttRaisesRemoves ==
    /\ pc = "emit"
    /\ fs' = [q \in (DOMAIN fs) \ {temp_subs} |-> fs[q]]
    /\ log' = Append(log, Started("emit"))
    /\ Abort("emit")
    /\ UNCHANGED <<uploaded_video, target_lang, segments, translated_segments,
                   player, success, calls, seconds, stamp>>

\* create_vtt raises: open fails, or a write to the disk fails (disk full,
\* file size limit).  The text goes through the buffer of the file object,
\* so what stays in the file is a part of the full content cut at any
\* character: nothing, or its first n characters.
CreateVttRaises ==
    /\ pc = "emit"
    /\ LET full == create_vtt(translated_segments)
       IN  \E n \in 0..(Len(full) - 1) :
             fs' = WriteFile(fs, temp_subs, SubSeq(full, 1, n))
    /\ log' = Append(log, Started("emit"))
    /\ Abort("emit")
    /\ UNCHANGED <<uploaded_video, target_lang, segments, translated_segments,
                   player, success, calls, seconds, stamp>>

\* Lines 97-113: both files are read and encoded, the markup is rendered.
Assemble ==
    /\ pc = "assemble"
    /\ player' = VideoHtml(fs[video_path], fs[temp_subs], target_lang)
    /\ log' = log \o <<Started("assemble"), Returned("assemble")>>
    /\ pc' = NextStage("assemble")
    /\ UNCHANGED <<uploaded_video, target_lang, fs, segments,
                   translated_segments, success, calls, failed_at, seconds,
                   stamp>>

\* Reading or encoding a file, or the rendering, raises.
AssembleRaises ==
    /\ pc = "assemble"
    /\ log' = Append(log, Started("assemble"))
    /\ Abort("assemble")
    /\ UNCHANGED <<uploaded_video, target_lang, fs, segments,
                   translated_segments, player, success, calls, seconds, stamp>>

\* Line 115.
Success ==
    /\ pc = "success"
    /\ success' = TRUE
    /\ pc' = NextStage("success")
    /\ UNCHANGED <<uploaded_video, target_lang, fs, segments,
                   translated_segments, player, log, calls, failed_at,
                   seconds, stamp>>

\* The file removed at each position of the cleanup, lines 118-120.
CleanupPath(position) ==
    CASE position = "rm_video" -> video_path
      [] position = "rm_audio" -> temp_audio
      [] position = "rm_subs"  -> temp_subs

\* Lines 118-120: one os.remove.
Cleanup ==
    /\ pc \in {"rm_video", "rm_audio", "rm_subs"}
    /\ LET removal == Remove(fs, CleanupPath(pc))
       IN  /\ ~removal.raised
           /\ fs' = removal.files
    /\ pc' = NextStage(pc)
    /\ UNCHANGED <<uploaded_video, target_lang, segments, translated_segments,
                   player, success, log, calls, failed_at, seconds, stamp>>

\* os.remove raises (permission denied, or the path does not exist): the
\* file and those after it stay.
CleanupRaises ==
    /\ pc \in {"rm_video", "rm_audio", "rm_subs"}
    /\ Abort("cleanup")
    /\ UNCHANGED <<uploaded_video, target_lang, fs, segments,
                   translated_segments, player, success, log, calls, seconds,
                   stamp>>

Next ==
    \/ Generate
    \/ GenerateRaises
    \/ ExtractAudio
    \/ ExtractAudioRaises
    \/ Transcribe
    \/ TranscribeRaises
    \/ TranslateEnter
    \/ TranslateStep
    \/ TranslateRaises
    \/ TranslateReturn
    \/ CreateVtt
    \/ CreateVttRaises
    \/ Assemble
    \/ AssembleRaises
    \/ Success
    \/ Cleanup
    \/ CleanupRaises

Spec == Init /\ [][Next]_vars

(***************************************************************************)
(* The timestamp specification: format_timestamp applied to one input.     *)
(***************************************************************************)
FmtWholes == {0, 1, 2, 4, 59, 60, 61, 128, 3599, 3600, 3661, 86399, 360000}

FmtFracs == {0, 1, 10, 100, 2000, 5000, 9990, 9995, 9999}

InitFmt ==
    /\ pc = "fmt"
    /\ uploaded_video = None
    /\ target_lang = "en"
    /\ fs = <<>>
    /\ segments = <<>>
    /\ translated_segments = <<>>
    /\ player = NoPlayer
    /\ success = FALSE
    /\ log = <<>>
    /\ calls = <<>>
    /\ failed_at = None
    /\ seconds \in {Sec(w, f) : w \in FmtWholes, f \in FmtFracs}
    /\ stamp = None

FormatTimestamp ==
    /\ pc = "fmt"
    /\ stamp' = format_timestamp(seconds)
    /\ pc' = "fmt_done"
    /\ UNCHANGED <<uploaded_video, target_lang, fs, segments,
                   translated_segments, player, success, log, calls,
                   failed_at, seconds>>

NextFmt == FormatTimestamp

SpecFmt == InitFmt /\ [][NextFmt]_vars

(***************************************************************************)
(* A reader of the subtitle format (section 8 of the specification, the    *)
(* round trip): the header, then blocks of a timing line and text lines    *)
(* closed by a blank line.  A cue time is read back as a decimal number    *)
(* of seconds with three fractional digits.                                *)
(***************************************************************************)
Range(s) == {s[i] : i \in DOMAIN s}

RECURSIVE SplitAcc(_, _, _, _)
SplitAcc(s, sep, cur, acc) ==
    IF s = <<>> THEN Append(acc, cur)
    ELSE IF Head(s) = sep
         THEN SplitAcc(Tail(s), sep, <<>>, Append(acc, cur))
         ELSE SplitAcc(Tail(s), sep, Append(cur, Head(s)), acc)

Split(s, sep) == SplitAcc(s, sep, <<>>, <<>>)

DigitValue(c) == CHOOSE d \in 0..9 : DigitChar[d + 1] = c

RECURSIVE ToInt(_)
ToInt(digits) ==
    IF digits = <<>> THEN 0
    ELSE 10 * ToInt(SubSeq(digits, 1, Len(digits) - 1))
           + DigitValue(digits[Len(digits)])

ParseTimestamp(chars) ==
    LET fields == Split(chars, ":")
        tail   == Split(fields[3], ".")
    IN  Sec(ToInt(fields[1]) * 3600 + ToInt(fields[2]) * 60 + ToInt(tail[1]),
            ToInt(tail[2]) * 10)

RECURSIVE TextLines(_)
TextLines(lines) ==
    IF lines = <<>> \/ Head(lines) = <<>> THEN <<>>
    ELSE <<Head(lines)>> \o TextLines(Tail(lines))

RECURSIVE JoinLines(_)
JoinLines(lines) ==
    IF lines = <<>> THEN <<>>
    ELSE IF Len(lines) = 1 THEN Head(lines)
    ELSE Head(lines) \o <<"\n">> \o JoinLines(Tail(lines))

RECURSIVE ParseCues(_)
ParseCues(lines) ==
    IF lines = <<>> THEN <<>>
    ELSE IF Head(lines) = <<>> THEN ParseCues(Tail(lines))
    ELSE LET timing == Split(Head(lines), " ")
             text   == TextLines(Tail(lines))
         IN  <<[start |-> ParseTimestamp(timing[1]),
                end   |-> ParseTimestamp(timing[3]),
                text  |-> JoinLines(text)]>>
               \o ParseCues(SubSeq(lines, 2 + Len(text), Len(lines)))

ParseVtt(content) ==
    LET lines == Split(content, "\n")
    IN  IF Len(lines) >= 2 /\ lines[1] = SubSeq(Header, 1, 6) /\ lines[2] = <<>>
        THEN ParseCues(SubSeq(lines, 3, Len(lines)))
        ELSE <<>>

\* original - parsed, in ten-thousandths of a second (for close values).
SecDiff(a, b) == (a.w - b.w) * 10000 + (a.f - b.f)

(***************************************************************************)
(* Properties.                                                             *)
(***************************************************************************)
FullLog ==
    <<Started("extract"), Returned("extract"),
      Started("transcribe"), Returned("transcribe"),
      Started("translate"), Returned("translate"),
      Started("emit"), Returned("emit"),
      Started("assemble"), Returned("assemble")>>

IsPrefix(s, t) == Len(s) <= Len(t) /\ s = SubSeq(t, 1, Len(s))

Chars2(n) == <<DigitChar[(n \div 10) + 1], DigitChar[(n % 10) + 1]>>

\* create_vtt has returned and its file has not been removed yet.
Emitted == Returned("emit") \in Range(log) /\ Exists(temp_subs)

\* Length of the file up to and including the cue block of segment i.
RECURSIVE EndOfBlock(_, _)
EndOfBlock(segs, i) ==
    IF i = 0 THEN Len(Header)
    ELSE EndOfBlock(segs, i - 1)
           + Len(format_timestamp(segs[i].start)) + Len(Arrow)
           + Len(format_timestamp(segs[i].end)) + 1 + Len(segs[i].text) + 2

\* C1: the file written by create_vtt for N translated segments is the
\* header 'WEBVTT' and a blank line followed by exactly N cue blocks, the
\* i-th at its place in input order and made of format_timestamp(start_i),
\* ' --> ', format_timestamp(end_i), a newline, text_i and a blank line.
C1_VttLayout ==
    Emitted =>
      LET f == fs[temp_subs]
          n == Len(translated_segments)
      IN  /\ Len(f) = EndOfBlock(translated_segments, n)
          /\ SubSeq(f, 1, 8) = <<"W", "E", "B", "V", "T", "T", "\n", "\n">>
          /\ \A i \in 1..n :
               LET sg == translated_segments[i]
                   lo == EndOfBlock(translated_segments, i - 1)
                   hi == EndOfBlock(translated_segments, i)
               IN  SubSeq(f, lo + 1, hi) =
                     format_timestamp(sg.start) \o <<" ", "-", "-", ">", " ">>
                       \o format_timestamp(sg.end) \o <<"\n">> \o sg.text
                       \o <<"\n", "\n">>

C1_Witness ==
    /\ Emitted
    /\ Len(translated_segments) >= 2
    /\ translated_segments[1] # translated_segments[2]

\* C2: when translate_segments has returned, the result has as many
\* elements as the input, the i-th with the start and end of the i-th
\* input segment and the text the translator returned for the i-th text.
C2_TranslationPreservesTiming ==
    Returned("translate") \in Range(log) =>
      /\ Len(translated_segments) = Len(segments)
      /\ Len(calls) = Len(segments)
      /\ \A i \in 1..Len(segments) :
           /\ translated_segments[i].start = segments[i].start
           /\ translated_segments[i].end = segments[i].end
           /\ calls[i].src = segments[i].text
           /\ translated_segments[i].text = calls[i].out

C2_Witness ==
    /\ Returned("translate") \in Range(log)
    /\ Len(segments) >= 2
    /\ segments[1].start # segments[2].start
    /\ calls[1].out # calls[2].out

\* C3: format_timestamp(s) is HH:MM:SS.mmm with HH = s div 3600 on at least
\* two digits, MM = (s mod 3600) div 60 and SS = whole part of s mod 60 on
\* two digits, and mmm = whole part of s*1000, mod 1000, on three digits;
\* 0 gives 00:00:00.000, 3661.5 gives 01:01:01.500, 59.9999 gives
\* 00:00:59.999.
C3_TimestampFields ==
    stamp # None =>
      LET fields == Split(stamp, ":")
          tail   == Split(fields[3], ".")
          hh     == fields[1]
      IN  /\ Len(fields) = 3
          /\ Len(tail) = 2
          /\ Len(hh) >= 2
          /\ (Len(hh) > 2 => hh[1] # "0")
          /\ ToInt(hh) = seconds.w \div 3600
          /\ fields[2] = Chars2((seconds.w % 3600) \div 60)
          /\ tail[1] = Chars2(seconds.w % 60)
          /\ Len(tail[2]) = 3
          /\ ToInt(tail[2]) = (seconds.w * 1000 + seconds.f \div 10) % 1000
          /\ (seconds = Sec(0, 0) =>
                stamp = <<"0", "0", ":", "0", "0", ":", "0", "0", ".",
                          "0", "0", "0">>)
          /\ (seconds = Sec(3661, 5000) =>
                stamp = <<"0", "1", ":", "0", "1", ":", "0", "1", ".",
                          "5", "0", "0">>)
          /\ (seconds = Sec(59, 9999) =>
                stamp = <<"0", "0", ":", "0", "0", ":", "5", "9", ".",
                          "9", "9", "9">>)

\* C4: the stages run strictly forward and each at most once: the history
\* of stage starts and returns is a prefix of extraction, transcription,
\* translation, emission, assembly, and a run that ends without error has
\* gone through all of them.
C4_StagesForwardOnce ==
    /\ IsPrefix(log, FullLog)
    /\ (pc \in {"success", "rm_video", "rm_audio", "rm_subs", "done"}
          => log = FullLog)

C4_Witness == pc = "done" /\ log = FullLog /\ Len(segments) >= 1

\* C5: once a translator call has failed the job is aborted with no
\* partial output: the failed call is the last call (no retry), no element
\* was appended for its segment (no fallback), the subtitle file holds no
\* cue and the player is not rendered.
C5_TranslatorFailureAborts ==
    (\E k \in 1..Len(calls) : calls[k].out = None) =>
      /\ pc = "aborted"
      /\ calls[Len(calls)].out = None
      /\ \A k \in 1..(Len(calls) - 1) : calls[k].out # None
      /\ Len(translated_segments) = Len(calls) - 1
      /\ \A i \in 1..Len(translated_segments) :
           translated_segments[i].text = calls[i].out
      /\ Exists(temp_subs) /\ fs[temp_subs] = <<>>
      /\ player = NoPlayer
      /\ ~success

C5_Witness ==
    /\ failed_at = "translate"
    /\ Len(calls) = 2
    /\ calls[1].out # None
    /\ calls[2].out = None

\* C6: transcription is only ever started on an audio file that exists
\* and is not empty.
C6_AudioVerifiedBeforeTranscription ==
    [][(Started("transcribe") \in Range(log') \ Range(log))
         => (Exists(temp_audio) /\ fs[temp_audio] # <<>>)]_vars

\* C7: a job that completes without error has removed its three temporary
\* files, and no step removes a temporary file while the player markup has
\* not been built.
C7_TempFilesDiscarded ==
    /\ [](pc = "done" => \A path \in TempFiles : ~Exists(path))
    /\ [][(\E path \in TempFiles : Exists(path) /\ path \notin DOMAIN fs')
            => player # NoPlayer]_vars

C7_Witness == pc = "done" /\ player # NoPlayer /\ fs = <<>> /\ success

\* C8: reading back the file written by create_vtt gives as many cues as
\* segments, in order, with the same text, and each start and end read
\* back is not greater than the original and less than 1 ms below it.
C8_RoundTrip ==
    Emitted =>
      LET cues == ParseVtt(fs[temp_subs])
      IN  /\ Len(cues) = Len(translated_segments)
          /\ \A i \in 1..Len(cues) :
               LET sg == translated_segments[i]
               IN  /\ cues[i].text = sg.text
                   /\ SecLeq(cues[i].start, sg.start)
                   /\ SecDiff(sg.start, cues[i].start) < 10
                   /\ SecLeq(cues[i].end, sg.end)
                   /\ SecDiff(sg.end, cues[i].end) < 10

\* C9: a job aborted by a failure of transcription, translation, emission
\* or playback assembly still has its three temporary files.
C9_FailureLeavesTempFiles ==
    failed_at \in {"transcribe", "translate", "emit", "assemble"} =>
      /\ pc = "aborted"
      /\ \A path \in TempFiles : Exists(path)

C9_Witness ==
    /\ pc = "aborted"
    /\ failed_at = "emit"
    /\ Len(translated_segments) >= 1
    /\ \A path \in TempFiles : Exists(path)

\* C10: a job whose transcription returned no segment never calls the
\* translator and does not fail in translation; its subtitle file is the
\* header and blank line only, and when it ends it has gone through every
\* stage, rendered the player on that file, shown the success message and
\* removed the temporary files.
C10_ZeroSegments ==
    (Returned("transcribe") \in Range(log) /\ segments = <<>>) =>
      /\ calls = <<>>
      /\ failed_at # "translate"
      /\ (Emitted =>
            fs[temp_subs] = <<"W", "E", "B", "V", "T", "T", "\n", "\n">>)
      /\ (pc = "done" =>
            /\ log = FullLog
            /\ player # NoPlayer
            /\ player.track = SubsUriPrefix \o
                 <<"V", "0", "V", "C", "V", "l", "R", "U", "C", "g",
                   "o", "=">>
            /\ success
            /\ fs = <<>>)

C10_Witness ==
    /\ pc = "done"
    /\ Returned("transcribe") \in Range(log)
    /\ segments = <<>>
    /\ player # NoPlayer
    /\ success

====
